---- MODULE Spec2Model ----
(***************************************************************************)
(* A model of the tcg-backend proxy: normalizePrice and the three          *)
(* pricing-API route handlers of server.js, and the image-provider         *)
(* fallback chain of image-providers.js.                                   *)
(*                                                                         *)
(* JavaScript values are tagged records.  A primitive is [t, n, s]: t is   *)
(* the tag, n the integer payload of a finite number or a boolean, s the   *)
(* characters of a string.  An object is [t |-> "obj", f] with f a         *)
(* function from the keys it has to their values, an array is              *)
(* [t |-> "arr", f] with f the sequence of its elements.  Finite numbers   *)
(* are integers: prices count hundredths, so 2.99 is 299.                  *)
(***************************************************************************)
EXTENDS Integers, Sequences, FiniteSets, TLC

\* ------------------------------------------------------------------ bounds
\* finite numbers handed to normalizePrice directly range over -MaxNum..MaxNum
MaxNum == 2
\* strings handed to normalizePrice directly have at most MaxStrLen characters
MaxStrLen == 2
\* objects handed to normalizePrice have at most MaxKeys own keys
MaxKeys == 2

\* ------------------------------------------------------- JavaScript values
Prim(t, n, s) == [t |-> t, n |-> n, s |-> s]
Undef == Prim("undefined", 0, <<>>)
Null == Prim("null", 0, <<>>)
Num(n) == Prim("num", n, <<>>)
NaN == Prim("nan", 0, <<>>)
Inf == Prim("inf", 0, <<>>)
NegInf == Prim("ninf", 0, <<>>)
Bool(b) == Prim("bool", IF b THEN 1 ELSE 0, <<>>)
Str(s) == Prim("str", 0, s)
Obj(f) == [t |-> "obj", f |-> f]
Arr(f) == [t |-> "arr", f |-> f]
EmptyObj == Obj(<<>>)

\* the typeof operator
TypeOf(v) ==
  CASE v.t \in {"num", "nan", "inf", "ninf"} -> "number"
    [] v.t = "str" -> "string"
    [] v.t = "bool" -> "boolean"
    [] v.t = "undefined" -> "undefined"
    [] OTHER -> "object"

\* v == null (loose): null or undefined
IsNullish(v) == v.t \in {"null", "undefined"}

\* ToBoolean
Truthy(v) ==
  CASE v.t \in {"null", "undefined", "nan"} -> FALSE
    [] v.t \in {"num", "bool"} -> v.n # 0
    [] v.t = "str" -> v.s # <<>>
    [] OTHER -> TRUE

\* property access v.k / v[k] on a value that is not null or undefined; the
\* element 0 of a string is its first character
Get(v, k) ==
  IF v.t = "obj" /\ k \in DOMAIN v.f THEN v.f[k]
  ELSE IF v.t = "arr" /\ k = "0" /\ Len(v.f) > 0 THEN v.f[1]
  ELSE IF v.t = "str" /\ k = "0" /\ Len(v.s) > 0
       THEN Str(<<IF v.s[1] = "Infinity" THEN "I" ELSE v.s[1]>>)
  ELSE Undef

\* optional chaining v?.k
GetOpt(v, k) == IF IsNullish(v) THEN Undef ELSE Get(v, k)

\* a ?? b
Coalesce(a, b) == IF IsNullish(a) THEN b ELSE a

\* a || b
Or(a, b) == IF Truthy(a) THEN a ELSE b

\* ------------------------------------------------- Number(string) (ToNumber)
\* The characters a string is made of.  "Infinity" stands for that word.
Digits == {"1", "7"}
Chars == Digits \cup {"-", " ", "a", "Infinity"}

DigitVal(c) == IF c = "1" THEN 1 ELSE 7

RECURSIVE TrimLeft(_)
TrimLeft(s) == IF s # <<>> /\ Head(s) = " " THEN TrimLeft(Tail(s)) ELSE s

RECURSIVE TrimRight(_)
TrimRight(s) ==
  IF s # <<>> /\ s[Len(s)] = " " THEN TrimRight(SubSeq(s, 1, Len(s) - 1)) ELSE s

RECURSIVE DecimalValue(_)
DecimalValue(s) ==
  IF s = <<>> THEN 0
  ELSE 10 * DecimalValue(SubSeq(s, 1, Len(s) - 1)) + DigitVal(s[Len(s)])

\* StringToNumber: white space is trimmed, the empty string is 0, then an
\* optional sign and either the word Infinity or decimal digits; else NaN.
StringToNumber(s) ==
  LET u == TrimRight(TrimLeft(s))
      neg == u # <<>> /\ Head(u) = "-"
      body == IF neg THEN Tail(u) ELSE u
  IN  IF u = <<>> THEN Num(0)
      ELSE IF body = <<"Infinity">> THEN (IF neg THEN NegInf ELSE Inf)
      ELSE IF body # <<>> /\ \A i \in 1..Len(body) : body[i] \in Digits
           THEN Num(IF neg THEN 0 - DecimalValue(body) ELSE DecimalValue(body))
      ELSE NaN

\* Number(v) of a primitive
PrimToNumber(v) ==
  CASE v.t \in {"num", "nan", "inf", "ninf"} -> v
    [] v.t = "str" -> StringToNumber(v.s)
    [] v.t = "bool" -> Num(v.n)
    [] v.t = "null" -> Num(0)
    [] OTHER -> NaN

\* Number(v): an object is NaN; an array goes through its string, which is
\* empty for [], [null] and [undefined] and the element's for [number] and
\* [string]
ToNumber(v) ==
  IF v.t = "obj" THEN NaN
  ELSE IF v.t = "arr"
       THEN IF v.f = <<>> THEN Num(0)
            ELSE IF Len(v.f) = 1 /\ v.f[1].t \in {"null", "undefined"} THEN Num(0)
            ELSE IF Len(v.f) = 1 /\ v.f[1].t \in {"num", "nan", "inf", "ninf", "str"}
                 THEN PrimToNumber(v.f[1])
            ELSE NaN
  ELSE PrimToNumber(v)

\* isNaN(Number(v))
IsNaNNumber(v) == ToNumber(v).t = "nan"

\* ---------------------------------------------------------- normalizePrice
DefaultPrice == [amount |-> Num(0), currency |-> Null]

\* server.js:31, the chain of ?? over the amount keys
AmountOf(price) ==
  Coalesce(Get(price, "amount"),
  Coalesce(Get(price, "value"),
  Coalesce(Get(price, "price"),
  Coalesce(Get(price, "lowest"),
  Coalesce(Get(price, "min"), Null)))))

\* server.js:32
CurrencyOf(price) == Coalesce(Get(price, "currency"), Coalesce(Get(price, "cur"), Null))

\* server.js:37
NestedOf(prices) ==
  Coalesce(Get(prices, "lowest"), Coalesce(Get(prices, "min"), Get(prices, "0")))

normalizePrice(price) ==
  IF IsNullish(price) THEN DefaultPrice
  ELSE IF TypeOf(price) = "number" THEN [amount |-> price, currency |-> Null]
  ELSE IF TypeOf(price) = "string" /\ ~IsNaNNumber(price)
       THEN [amount |-> ToNumber(price), currency |-> Null]
  ELSE IF TypeOf(price) = "object"
       THEN LET amount == AmountOf(price)
                currency == CurrencyOf(price)
                p == NestedOf(Get(price, "prices"))
            IN  IF ~IsNullish(amount) /\ ~IsNaNNumber(amount)
                THEN [amount |-> ToNumber(amount), currency |-> Or(currency, Null)]
                ELSE IF Truthy(Get(price, "prices")) /\ ~IsNullish(p) /\ ~IsNaNNumber(p)
                THEN [amount |-> ToNumber(p), currency |-> Or(currency, Null)]
                ELSE DefaultPrice
  ELSE DefaultPrice

\* -------------------------------------------- the inputs of normalizePrice
RECURSIVE SeqsUpTo(_, _)
SeqsUpTo(S, n) ==
  IF n = 0 THEN {<<>>}
  ELSE LET shorter == SeqsUpTo(S, n - 1)
       IN  shorter \cup {Append(s, c) : s \in shorter, c \in S}

\* every function from the keys D to values, V[k] the values key k may have
RECURSIVE FunsOn(_, _)
FunsOn(D, V) ==
  IF D = {} THEN {<<>>}
  ELSE LET k == CHOOSE x \in D : TRUE
       IN  {(k :> v) @@ f : v \in V[k], f \in FunsOn(D \ {k}, V)}

\* every such function from at most n of the keys K
FunsUpTo(K, V, n) ==
  UNION {FunsOn(D, V) : D \in {D \in SUBSET K : Cardinality(D) <= n}}

AmountVals ==
  {Null, Num(0), Num(1), Num(5), NaN, Inf, Bool(TRUE), EmptyObj,
   Str(<<>>), Str(<<"7">>), Str(<<"a">>), Str(<<"Infinity">>)}
CurrencyVals == {Null, Str(<<>>), Str(<<"USD">>), Str(<<"EUR">>)}
NestedVals == {Null, Num(1), Num(2), Str(<<"a">>)}
NestedKeys == {"lowest", "min", "0"}
Collections ==
  {Obj(f) : f \in FunsUpTo(NestedKeys, [k \in NestedKeys |-> NestedVals], 2)}
  \cup {Arr(q) : q \in SeqsUpTo(NestedVals, 2)}
PricesVals == {Null, Num(0), Num(5), Str(<<"7", "1">>)} \cup Collections

AmountKeys == {"amount", "value", "price", "lowest", "min"}
CurrencyKeys == {"currency", "cur"}
PriceKeys == AmountKeys \cup CurrencyKeys \cup {"prices"}
PriceKeyVals ==
  [k \in PriceKeys |->
     IF k \in AmountKeys THEN AmountVals
     ELSE IF k \in CurrencyKeys THEN CurrencyVals
     ELSE PricesVals]

\* the sets of keys an object handed to normalizePrice may have
PriceDomains == {D \in SUBSET PriceKeys : Cardinality(D) <= MaxKeys}

PricePrimitives ==
  {Undef, Null, NaN, Inf, NegInf, Bool(TRUE), Bool(FALSE), Arr(<<>>), Arr(<<Num(5)>>)}
  \cup {Num(n) : n \in (0 - MaxNum)..MaxNum}
  \cup {Str(s) : s \in SeqsUpTo(Chars, MaxStrLen)}

\* ------------------------------------------------ shaping a card (server.js)
\* SearchCard with || in place of ?? in the price selection
SearchCard_OrChain(card) ==
  LET variant == Or(GetOpt(Get(card, "variants"), "0"), EmptyObj)
      image == Or(Get(variant, "image"), Or(Get(card, "image"), Null))
      info == normalizePrice(
                Or(Get(variant, "price"),
                Or(Get(variant, "prices"),
                Or(Get(card, "price"), Get(card, "prices")))))
  IN  Obj([id |-> Get(card, "id"),
           name |-> Get(card, "name"),
           set_name |-> Or(Get(card, "set_name"), Get(card, "set")),
           set |-> Get(card, "set"),
           number |-> Get(card, "number"),
           image |-> image,
           price |-> info.amount,
           currency |-> info.currency,
           variant_id |-> Coalesce(Get(variant, "id"), Null)])

\* GET /api/cards/search, the body of rawCards.map (server.js:85-102)
SearchCard(card) ==
  LET variant == Or(GetOpt(Get(card, "variants"), "0"), EmptyObj)
      image == Or(Get(variant, "image"), Or(Get(card, "image"), Null))
      info == normalizePrice(
                Coalesce(Get(variant, "price"),
                Coalesce(Get(variant, "prices"),
                Coalesce(Get(card, "price"), Get(card, "prices")))))
  IN  Obj([id |-> Get(card, "id"),
           name |-> Get(card, "name"),
           set_name |-> Or(Get(card, "set_name"), Get(card, "set")),
           set |-> Get(card, "set"),
           number |-> Get(card, "number"),
           image |-> image,
           price |-> info.amount,
           currency |-> info.currency,
           variant_id |-> Coalesce(Get(variant, "id"), Null)])

\* PriceCard with the card's own image preferred to the variant's
PriceCard_CardImageFirst(card, raw) ==
  LET variant == Or(GetOpt(Get(card, "variants"), "0"), EmptyObj)
      image == Or(Get(card, "image"), Or(Get(variant, "image"), Null))
      info == normalizePrice(
                Coalesce(Get(variant, "price"),
                Coalesce(Get(variant, "prices"),
                Coalesce(Get(card, "price"), Get(card, "prices")))))
  IN  Obj([price |-> info.amount,
           currency |-> info.currency,
           image |-> image,
           variant_id |-> Coalesce(Get(variant, "id"), Null),
           raw |-> IF raw THEN Obj([card |-> card, variant |-> variant]) ELSE Undef])

\* GET /api/cards/price, the object handed to res.json (server.js:128-144)
PriceCard(card, raw) ==
  LET variant == Or(GetOpt(Get(card, "variants"), "0"), EmptyObj)
      image == Or(Get(variant, "image"), Or(Get(card, "image"), Null))
      info == normalizePrice(
                Coalesce(Get(variant, "price"),
                Coalesce(Get(variant, "prices"),
                Coalesce(Get(card, "price"), Get(card, "prices")))))
  IN  Obj([price |-> info.amount,
           currency |-> info.currency,
           image |-> image,
           variant_id |-> Coalesce(Get(variant, "id"), Null),
           raw |-> IF raw THEN Obj([card |-> card, variant |-> variant]) ELSE Undef])

\* rawCards = apiData.data || [] (server.js:82)
RawCards(apiData) == Or(Get(apiData, "data"), Arr(<<>>))

\* what makes lines 81-102 throw: apiData null, rawCards without a map
\* method, or a null element whose variants are read
SearchThrows(apiData) ==
  \/ IsNullish(apiData)
  \/ RawCards(apiData).t # "arr"
  \/ \E i \in 1..Len(RawCards(apiData).f) : IsNullish(RawCards(apiData).f[i])

\* what makes lines 127-144 throw: card.variants of a null card
PriceThrows(card) == IsNullish(card)

\* ----------------------------------------------- what the upstream may send
VariantKeys == {"id", "image", "price", "prices"}
VariantVals ==
  [k \in VariantKeys |->
     CASE k = "id" -> {Str(<<"v1">>)}
       [] k = "image" -> {Str(<<>>), Str(<<"v.png">>)}
       [] k = "price" -> {Null, Num(0), Num(250)}
       [] k = "prices" -> {Null, Obj([min |-> Num(99)])}]
Variants == {Obj(f) : f \in FunsUpTo(VariantKeys, VariantVals, 4)}
\* a second variant, whose fields no card or first variant has
OtherVariant ==
  Obj([id |-> Str(<<"v2">>), image |-> Str(<<"w.png">>), price |-> Num(777)])
VariantLists ==
  {Null, Arr(<<>>), Arr(<<Null>>)}
  \cup {Arr(<<v>>) : v \in Variants} \cup {Arr(<<v, OtherVariant>>) : v \in Variants}

CardKeys == {"image", "price", "prices", "variants"}
CardVals ==
  [k \in CardKeys |->
     CASE k = "image" -> {Str(<<>>), Str(<<"card.png">>)}
       [] k = "price" -> {Null, Num(0), Obj([lowest |-> Num(299)])}
       [] k = "prices" -> {Obj([lowest |-> Num(299)])}
       [] k = "variants" -> VariantLists]
\* the fields every modelled card has
BaseCard ==
  [id |-> Str(<<"c1">>), name |-> Str(<<"Pikachu">>), set |-> Str(<<"base1">>),
   number |-> Str(<<"58">>)]
CardDomains == SUBSET CardKeys

SampleCard == Obj(BaseCard @@ [set_name |-> Str(<<"Base Set">>), price |-> Num(150)])

\* JSON bodies of an upstream success answer besides one card or a list of one
OtherBodies ==
  {Null, Num(5), EmptyObj, Obj([data |-> Null]), Obj([data |-> Arr(<<>>)]),
   Obj([data |-> EmptyObj]), Obj([data |-> Arr(<<Null>>)]),
   Obj([data |-> Arr(<<SampleCard, Obj(BaseCard)>>)]),
   Obj([data |-> Arr(<<SampleCard, Null>>)])}

\* JSON bodies of an upstream error answer
ErrBodies ==
  {Null, Num(5), EmptyObj, Obj([error |-> Str(<<>>)]),
   Obj([error |-> Str(<<"Card not found upstream">>)])}

\* HTTP statuses the upstream may answer with
Statuses == {200, 401, 404, 500, 503}

\* response.ok
Ok(status) == status >= 200 /\ status <= 299

\* the query parameters of a request: missing, empty, or given
ParamVals == {Undef, Str(<<>>), Str(<<"x">>)}
Requests ==
  {[route |-> "search", game |-> g, q |-> q, id |-> Undef] : g \in ParamVals, q \in ParamVals}
  \cup {[route |-> "price", game |-> Undef, q |-> Undef, id |-> i] : i \in ParamVals}
  \cup {[route |-> "games", game |-> Undef, q |-> Undef, id |-> Undef]}
NoRequest == [route |-> "none", game |-> Undef, q |-> Undef, id |-> Undef]

\* ------------------------------------------------------- image-providers.js
\* The text of a game tag or set code is a sequence of words; includes(w) of a
\* word w is the presence of w among them.
Lower(w) ==
  CASE w = "Pokemon" -> "pokemon"
    [] w = "Magic" -> "magic"
    [] w = "MTG" -> "mtg"
    [] OTHER -> w

\* (card.game || '').toLowerCase() (image-providers.js:80)
GameOf(card) ==
  LET g == Or(Get(card, "game"), Str(<<>>))
  IN  [i \in 1..Len(g.s) |-> Lower(g.s[i])]

Includes(words, w) == \E i \in 1..Len(words) : words[i] = w

\* card.set && card.set.includes(w)
SetIncludes(card, w) == Truthy(Get(card, "set")) /\ Includes(Get(card, "set").s, w)

\* image-providers.js:83
PokemonHint(card) == Includes(GameOf(card), "pokemon") \/ SetIncludes(card, "pokemon")

\* image-providers.js:88
MagicHint(card) ==
  Includes(GameOf(card), "magic") \/ Includes(GameOf(card), "mtg") \/ SetIncludes(card, "mtg")

\* The provider queries getImageForCard can issue, in the order of its code:
\* the calls of lines 84, 89, 94 and 96, each with its two queries.
Chain ==
  <<[stage |-> "hinted", provider |-> "pokemon", key |-> "set+number"],
    [stage |-> "hinted", provider |-> "pokemon", key |-> "name"],
    [stage |-> "hinted", provider |-> "scryfall", key |-> "exact-name"],
    [stage |-> "hinted", provider |-> "scryfall", key |-> "set+number+name"],
    [stage |-> "generic", provider |-> "pokemon", key |-> "set+number"],
    [stage |-> "generic", provider |-> "pokemon", key |-> "name"],
    [stage |-> "generic", provider |-> "scryfall", key |-> "exact-name"],
    [stage |-> "generic", provider |-> "scryfall", key |-> "set+number+name"]>>

\* the position after the last query: getImageForCard has returned
Returned == Len(Chain) + 1

\* whether getImageForCard makes the provider call of position i
\* (image-providers.js:83, 88, 94, 96)
CallMade(card, i) ==
  IF Chain[i].stage = "generic" THEN TRUE
  ELSE IF Chain[i].provider = "pokemon" THEN PokemonHint(card)
  ELSE MagicHint(card)

\* whether the provider function issues the query of position i
\* (image-providers.js:14, 28, 48, 60)
QueryMade(card, i) ==
  IF Chain[i].key \in {"set+number", "set+number+name"}
  THEN Truthy(Get(card, "set")) /\ Truthy(Get(card, "number"))
  ELSE Truthy(Get(card, "name"))

\* the first query issued at or after position i, Returned when there is none
RECURSIVE NextQuery(_, _)
NextQuery(card, i) ==
  IF i > Len(Chain) THEN Returned
  ELSE IF CallMade(card, i) /\ QueryMade(card, i) THEN i
  ELSE NextQuery(card, i + 1)

\* the last position of the provider call that position i belongs to
CallEnd(i) == IF i % 2 = 1 THEN i + 1 ELSE i

\* fetchScryfallImage without its try
InTry_ScryfallBare(i) == Chain[i].provider = "pokemon"

\* whether an exception raised at position i is caught by the provider
\* function (the try of image-providers.js:10-41 and 46-75)
InTry(i) == TRUE

\* getImageForCard without the "if (img) return img" of its hinted calls
ReturnsImage_HintDropped(i) == Chain[i].stage = "generic"

\* whether a usable image found at position i is returned by getImageForCard
\* (image-providers.js:23, 36, 53-55, 68-69 and 85, 90, 95, 97)
ReturnsImage(i) == TRUE

\* where an exception caught at position i resumes: after the provider call
AfterThrow(i) == CallEnd(i) + 1

\* where a query without a result at position i resumes: at the next one
AfterMiss(i) == i + 1

\* the image a PokeTCG answer j yields (image-providers.js:22-23, 35-36)
PokemonImageOf(j) ==
  LET first == GetOpt(Get(j, "data"), "0")
      large == GetOpt(GetOpt(first, "images"), "large")
      small == GetOpt(GetOpt(first, "images"), "small")
  IN  IF Truthy(Or(large, small)) THEN Or(large, small) ELSE Null

\* the image a Scryfall cards/named answer j yields (image-providers.js:53-55)
ScryfallNamedImageOf(j) ==
  LET normal == GetOpt(Get(j, "image_uris"), "normal")
      large == GetOpt(Get(j, "image_uris"), "large")
      face == GetOpt(GetOpt(GetOpt(Get(j, "card_faces"), "0"), "image_uris"), "normal")
  IN  IF Truthy(normal) THEN normal
      ELSE IF Truthy(large) THEN large
      ELSE IF Truthy(face) THEN face
      ELSE Null

\* the image a Scryfall cards/search answer j yields (image-providers.js:66-70)
ScryfallSearchImageOf(j) ==
  LET first == GetOpt(Get(j, "data"), "0")
      normal == GetOpt(Get(first, "image_uris"), "normal")
      face == GetOpt(GetOpt(GetOpt(Get(first, "card_faces"), "0"), "image_uris"), "normal")
  IN  IF ~Truthy(first) THEN Null
      ELSE IF Truthy(normal) THEN normal
      ELSE IF Truthy(face) THEN face
      ELSE Null

ImageOf(i, j) ==
  IF Chain[i].provider = "pokemon" THEN PokemonImageOf(j)
  ELSE IF Chain[i].key = "exact-name" THEN ScryfallNamedImageOf(j)
  ELSE ScryfallSearchImageOf(j)

\* reading j.data or j.image_uris of a null body throws
ReadThrows(j) == IsNullish(j)

\* the cards getImageForCard is called with: each field a string or absent
ImageCardKeys == {"game", "set", "number", "name"}
ImageCardVals ==
  [k \in ImageCardKeys |->
     CASE k = "game" -> {Str(<<>>), Str(<<"Pokemon", "TCG">>), Str(<<"MTG">>),
                         Str(<<"magic">>), Str(<<"yugioh">>)}
       [] k = "set" -> {Str(<<"base1">>), Str(<<"pokemon", "base">>), Str(<<"mtg", "m21">>),
                        Str(<<"Pokemon">>)}
       [] k = "number" -> {Str(<<"58">>)}
       [] k = "name" -> {Str(<<>>), Str(<<"Pikachu">>)}]

Url(u) == Str(<<u>>)
FaceOf(u) == Obj([card_faces |-> Arr(<<Obj([image_uris |-> Obj([normal |-> Url(u)])])>>)])

\* the JSON bodies a provider may answer with
ImageBodies ==
  {Null, EmptyObj, Obj([data |-> Arr(<<>>)]),
   Obj([data |-> Arr(<<Obj([images |-> Obj([large |-> Url("large.png"), small |-> Url("small.png")])])>>)]),
   Obj([data |-> Arr(<<Obj([images |-> Obj([small |-> Url("small.png")])])>>)]),
   Obj([data |-> Arr(<<Obj([images |-> Obj([large |-> Str(<<>>)])])>>)]),
   Obj([image_uris |-> Obj([normal |-> Url("normal.jpg"), large |-> Url("large.jpg")])]),
   Obj([image_uris |-> Obj([large |-> Url("large.jpg")])]),
   FaceOf("face.jpg"),
   Obj([data |-> Arr(<<Obj([image_uris |-> Obj([normal |-> Url("normal.jpg")])])>>)]),
   Obj([data |-> Arr(<<Obj([image_uris |-> Obj([large |-> Url("large.jpg")])])>>)]),
   Obj([data |-> Arr(<<FaceOf("face.jpg")>>)])}

\* ------------------------------------------------------------------- state
VARIABLES
  price,      \* the argument of the pending or finished normalizePrice call
  priceInfo,  \* what the call returned
  ppc,        \* "call" before normalizePrice runs, "done" after
  apiKey,     \* whether JUSTTCG_API_KEY is set (read once at startup)
  showRaw,    \* whether SHOW_RAW is 'true'
  req,        \* the request being handled
  hpc,        \* where its handler is: idle, fetch, errbody, body, done
  calls,      \* upstream calls made for this request
  upStatus,   \* the status of the upstream answer, 0 before there is one
  upBody,     \* the JSON body the handler read from the upstream answer
  sent,       \* the responses sent for this request, in order
  icard,      \* the argument of getImageForCard
  ipc,        \* 0 before the call, the position of the query in flight, or Returned
  ilog,       \* the queries that have settled, in order, each with its result
  iret,       \* what getImageForCard returned
  iraised     \* whether an exception left getImageForCard

priceVars == <<price, priceInfo, ppc>>
serverVars == <<apiKey, showRaw, req, hpc, calls, upStatus, upBody, sent>>
imageVars == <<icard, ipc, ilog, iret, iraised>>
vars ==
  <<price, priceInfo, ppc, apiKey, showRaw, req, hpc, calls, upStatus, upBody, sent,
    icard, ipc, ilog, iret, iraised>>

\* getImageForCard is not being called
ImageIdle ==
  /\ icard = EmptyObj
  /\ ipc = 0
  /\ ilog = <<>>
  /\ iret = Undef
  /\ iraised = FALSE

\* no request is being handled
ServerIdle ==
  /\ apiKey \in BOOLEAN
  /\ showRaw \in BOOLEAN
  /\ req = NoRequest
  /\ hpc = "idle"
  /\ calls = 0
  /\ upStatus = 0
  /\ upBody = Undef
  /\ sent = <<>>

PriceInit ==
  /\ \/ price \in PricePrimitives
     \/ \E D \in PriceDomains : \E f \in FunsOn(D, PriceKeyVals) : price = Obj(f)
  /\ priceInfo = DefaultPrice
  /\ ppc = "call"
  /\ ServerIdle
  /\ apiKey = TRUE
  /\ showRaw = FALSE
  /\ ImageIdle

Normalize ==
  /\ ppc = "call"
  /\ priceInfo' = normalizePrice(price)
  /\ ppc' = "done"
  /\ UNCHANGED price
  /\ UNCHANGED serverVars
  /\ UNCHANGED imageVars

PriceNext == Normalize

SpecPrice == PriceInit /\ [][PriceNext]_vars

\* ------------------------------------------------------- the route handlers
Response(status, body) == [status |-> status, body |-> body]
ErrorBody(msg) == Obj([error |-> Str(<<msg>>)])

\* requireJustTcgKey calling next() whatever the key
requireJustTcgKey_AlwaysNext == TRUE

\* requireJustTcgKey (server.js:47-53): TRUE when it calls next()
requireJustTcgKey == apiKey

\* what requireJustTcgKey answers when the key is missing (server.js:50)
KeyMissing ==
  Response(500, ErrorBody("JustTCG API key not configured on server (JUSTTCG_API_KEY)"))

\* the parameter check of a handler (server.js:64, 115): TRUE when it passes
ParamsGiven(r) ==
  CASE r.route = "search" -> Truthy(r.game) /\ Truthy(r.q)
    [] r.route = "price" -> Truthy(r.id)
    [] OTHER -> TRUE

\* what the handler answers to a failed parameter check (server.js:65, 115)
ParamMissing(r) ==
  IF r.route = "search" THEN Response(400, ErrorBody("Missing game or q"))
  ELSE Response(400, ErrorBody("Missing id"))

\* a catch block that logs the error and answers nothing
Caught_LogOnly(r) == <<>>

\* the catch block of each handler (server.js:105-108, 145-148, 159-161)
Caught(r) ==
  CASE r.route = "search" -> <<Response(500, ErrorBody("Internal server error"))>>
    [] r.route = "price" -> <<Response(500, ErrorBody("Failed to fetch price"))>>
    [] OTHER -> <<Response(500, ErrorBody("err.message"))>>

\* the fallback message of a route (server.js:78, 124)
Fallback(r) ==
  IF r.route = "search" THEN Str(<<"JustTCG API error">>) ELSE Str(<<"Card not found">>)

\* the status answered to an upstream failure (server.js:78, 124)
ErrorStatus(status) == status

\* the answer to a request, up to its first await: the middleware, then the
\* handler's parameter check, then the fetch
Receive ==
  /\ hpc = "idle"
  /\ \E r \in Requests :
       /\ req' = r
       /\ IF ~requireJustTcgKey
          THEN sent' = <<KeyMissing>> /\ calls' = 0 /\ hpc' = "done"
          ELSE IF ~ParamsGiven(r)
          THEN sent' = <<ParamMissing(r)>> /\ calls' = 0 /\ hpc' = "done"
          ELSE sent' = <<>> /\ calls' = 1 /\ hpc' = "fetch"
  /\ UNCHANGED <<apiKey, showRaw, upStatus, upBody>>
  /\ UNCHANGED priceVars
  /\ UNCHANGED imageVars

\* await fetch(url) throws: the handler's catch block answers
FetchRejects ==
  /\ hpc = "fetch"
  /\ sent' = sent \o Caught(req)
  /\ hpc' = "done"
  /\ UNCHANGED <<apiKey, showRaw, req, calls, upStatus, upBody>>
  /\ UNCHANGED priceVars
  /\ UNCHANGED imageVars

\* await fetch(url) returns a response (server.js:69-79, 118-125, 154-158)
FetchResolves ==
  /\ hpc = "fetch"
  /\ \E status \in Statuses :
       /\ upStatus' = status
       /\ IF Ok(status) THEN hpc' = "body" /\ sent' = sent
          ELSE IF req.route = "games"
          THEN hpc' = "done" /\ sent' = Append(sent, Response(200, ErrorBody("Failed")))
          ELSE hpc' = "errbody" /\ sent' = sent
  /\ UNCHANGED <<apiKey, showRaw, req, calls, upBody>>
  /\ UNCHANGED priceVars
  /\ UNCHANGED imageVars

\* await response.json().catch(() => ({})) of an upstream failure settles
\* (server.js:77-78, 123-124); err.error of a null body throws
ErrBodySettles ==
  /\ hpc = "errbody"
  /\ \E parsed \in BOOLEAN : \E b \in ErrBodies :
       LET err == IF parsed THEN b ELSE EmptyObj
       IN  /\ upBody' = err
           /\ IF IsNullish(err) THEN sent' = sent \o Caught(req)
              ELSE sent' = Append(sent,
                     Response(ErrorStatus(upStatus),
                              Obj([error |-> Or(Get(err, "error"), Fallback(req))])))
  /\ hpc' = "done"
  /\ UNCHANGED <<apiKey, showRaw, req, calls, upStatus>>
  /\ UNCHANGED priceVars
  /\ UNCHANGED imageVars

\* await response.json() of an upstream success throws
BodyRejects ==
  /\ hpc = "body"
  /\ sent' = sent \o Caught(req)
  /\ hpc' = "done"
  /\ UNCHANGED <<apiKey, showRaw, req, calls, upStatus, upBody>>
  /\ UNCHANGED priceVars
  /\ UNCHANGED imageVars

\* the rest of a handler once the body b is read
Answer(b) ==
  /\ upBody' = b
  /\ sent' = CASE req.route = "search" ->
                    IF SearchThrows(b) THEN sent \o Caught(req)
                    ELSE Append(sent, Response(200,
                           Obj([data |-> Arr([i \in 1..Len(RawCards(b).f) |->
                                                SearchCard(RawCards(b).f[i])])])))
                [] req.route = "price" ->
                    IF PriceThrows(b) THEN sent \o Caught(req)
                    ELSE Append(sent, Response(200, PriceCard(b, showRaw)))
                [] OTHER -> Append(sent, Response(200, b))
  /\ hpc' = "done"
  /\ UNCHANGED <<apiKey, showRaw, req, calls, upStatus>>
  /\ UNCHANGED priceVars
  /\ UNCHANGED imageVars

\* await response.json() of an upstream success returns one card, or a list
\* of one card (server.js:81-104, 127-144)
BodyCard ==
  /\ hpc = "body"
  /\ req.route \in {"search", "price"}
  /\ \E D \in CardDomains : \E f \in FunsOn(D, CardVals) :
       IF req.route = "search" THEN Answer(Obj([data |-> Arr(<<Obj(BaseCard @@ f)>>)]))
       ELSE Answer(Obj(BaseCard @@ f))

\* await response.json() of an upstream success returns something else
\* (server.js:81-104, 127-144, 157-158)
BodyOther ==
  /\ hpc = "body"
  /\ \E b \in OtherBodies : Answer(b)

\* the handler has returned: the request and everything built for it are
\* dropped, the process goes on serving
Finish ==
  /\ hpc = "done"
  /\ req' = NoRequest
  /\ hpc' = "idle"
  /\ calls' = 0
  /\ upStatus' = 0
  /\ upBody' = Undef
  /\ sent' = <<>>
  /\ UNCHANGED <<apiKey, showRaw>>
  /\ UNCHANGED priceVars
  /\ UNCHANGED imageVars

ServerInit ==
  /\ ServerIdle
  /\ price = Undef
  /\ priceInfo = DefaultPrice
  /\ ppc = "done"
  /\ ImageIdle

Next ==
  \/ Receive
  \/ FetchRejects
  \/ FetchResolves
  \/ ErrBodySettles
  \/ BodyRejects
  \/ BodyCard
  \/ BodyOther
  \/ Finish

Spec == ServerInit /\ [][Next]_vars

\* every upstream call settles: the fetch and the reading of its body
FairSpec ==
  /\ Spec
  /\ WF_vars(FetchRejects \/ FetchResolves)
  /\ WF_vars(ErrBodySettles)
  /\ WF_vars(BodyRejects \/ BodyCard \/ BodyOther)

\* --------------------------------------------------------- getImageForCard
ImageInit ==
  /\ \E D \in SUBSET ImageCardKeys : \E f \in FunsOn(D, ImageCardVals) : icard = Obj(f)
  /\ ipc = 0
  /\ ilog = <<>>
  /\ iret = Undef
  /\ iraised = FALSE
  /\ ServerIdle
  /\ apiKey = TRUE
  /\ showRaw = FALSE
  /\ price = Undef
  /\ priceInfo = DefaultPrice
  /\ ppc = "done"

Settled(i, kind, url) == Chain[i] @@ [kind |-> kind, url |-> url]

\* getImageForCard runs from position i to its next await, or to its end
Resume(i) ==
  /\ ipc' = NextQuery(icard, i)
  /\ iret' = IF NextQuery(icard, i) = Returned THEN Null ELSE iret
  /\ iraised' = iraised

\* an exception at the query in flight: caught by the provider function,
\* which returns null, or leaving getImageForCard
Throw ==
  IF InTry(ipc) THEN Resume(AfterThrow(ipc))
  ELSE ipc' = Returned /\ iraised' = TRUE /\ iret' = iret

\* getImageForCard(card) up to its first query (image-providers.js:79-94)
Call ==
  /\ ipc = 0
  /\ Resume(1)
  /\ UNCHANGED <<icard, ilog>>
  /\ UNCHANGED <<priceVars, serverVars>>

\* await fetch(url) throws
QueryRejects ==
  /\ ipc \in 1..Len(Chain)
  /\ ilog' = Append(ilog, Settled(ipc, "rejected", Null))
  /\ Throw
  /\ UNCHANGED icard
  /\ UNCHANGED <<priceVars, serverVars>>

\* the provider answers with a status that is not a success: r.ok is false
QueryNotOk ==
  /\ ipc \in 1..Len(Chain)
  /\ ilog' = Append(ilog, Settled(ipc, "non-ok", Null))
  /\ Resume(AfterMiss(ipc))
  /\ UNCHANGED icard
  /\ UNCHANGED <<priceVars, serverVars>>

\* the provider answers with a success whose body is not JSON: r.json() throws
QueryMalformed ==
  /\ ipc \in 1..Len(Chain)
  /\ ilog' = Append(ilog, Settled(ipc, "malformed", Null))
  /\ Throw
  /\ UNCHANGED icard
  /\ UNCHANGED <<priceVars, serverVars>>

\* the provider answers with a success and a JSON body j
QueryAnswers ==
  /\ ipc \in 1..Len(Chain)
  /\ \E j \in ImageBodies :
       IF ReadThrows(j)
       THEN ilog' = Append(ilog, Settled(ipc, "null-body", Null)) /\ Throw
       ELSE IF Truthy(ImageOf(ipc, j))
       THEN /\ ilog' = Append(ilog, Settled(ipc, "image", ImageOf(ipc, j)))
            /\ IF ReturnsImage(ipc)
               THEN ipc' = Returned /\ iret' = ImageOf(ipc, j) /\ iraised' = iraised
               ELSE Resume(AfterThrow(ipc))
       ELSE ilog' = Append(ilog, Settled(ipc, "empty", Null)) /\ Resume(AfterMiss(ipc))
  /\ UNCHANGED icard
  /\ UNCHANGED <<priceVars, serverVars>>

ImageNext ==
  \/ Call
  \/ QueryRejects
  \/ QueryNotOk
  \/ QueryMalformed
  \/ QueryAnswers

SpecImage == ImageInit /\ [][ImageNext]_vars

\* ------------------------------------------------------------ claims C1, C2
\* C1: whatever normalizePrice is handed, the amount it returns is a finite
\* number: never null, never NaN, never an infinity, never a string.
C1_AmountFinite == ppc = "done" => priceInfo.amount.t = "num"

\* the value of the first of the keys ks that v has with a value
RECURSIVE FirstPresent(_, _)
FirstPresent(v, ks) ==
  IF ks = <<>> THEN Undef
  ELSE IF ~IsNullish(Get(v, Head(ks))) THEN Get(v, Head(ks))
  ELSE FirstPresent(v, Tail(ks))

ResolvesFinite(x) == ~IsNullish(x) /\ ToNumber(x).t = "num"

C2_Expected(o) ==
  LET a == FirstPresent(o, <<"amount", "value", "price", "lowest", "min">>)
      c == FirstPresent(o, <<"currency", "cur">>)
      found == IF Truthy(c) THEN c ELSE Null
      ps == Get(o, "prices")
      p == IF IsNullish(ps) THEN Undef ELSE FirstPresent(ps, <<"lowest", "min", "0">>)
  IN  IF ResolvesFinite(a) THEN [amount |-> ToNumber(a), currency |-> found]
      ELSE IF ResolvesFinite(p) THEN [amount |-> ToNumber(p), currency |-> found]
      ELSE DefaultPrice

\* C2: for an object, the amount is that of the first amount key present if it
\* resolves to a finite number, else prices.lowest, else prices.min, else the
\* first element of prices if that is a finite number, with the currency found
\* (or null); in every other case the result is {amount: 0, currency: null}.
C2_ObjectRule == ppc = "done" /\ price.t = "obj" => priceInfo = C2_Expected(price)

\* ------------------------------------------------------- claims C5, C6, C9
QueryOf(e) == [stage |-> e.stage, provider |-> e.provider, key |-> e.key]
NoQuery == [stage |-> "none", provider |-> "none", key |-> "none"]

\* the query attempted after the i-th settled one, NoQuery when there is none
AttemptAfter(i) ==
  IF i < Len(ilog) THEN QueryOf(ilog[i + 1])
  ELSE IF ipc \in 1..Len(Chain) THEN Chain[ipc]
  ELSE NoQuery

\* the second query of a provider, which the card has the fields for
SecondOf(e) ==
  IF e.provider = "pokemon" /\ e.key = "set+number" /\ Truthy(Get(icard, "name"))
  THEN [stage |-> e.stage, provider |-> "pokemon", key |-> "name"]
  ELSE IF e.provider = "scryfall" /\ e.key = "exact-name"
          /\ Truthy(Get(icard, "set")) /\ Truthy(Get(icard, "number"))
  THEN [stage |-> e.stage, provider |-> "scryfall", key |-> "set+number+name"]
  ELSE NoQuery

\* C5: a query that returns a non-success status or that throws is treated as
\* "no result" and the next query is still attempted: after the set+number
\* query of the first catalog fails the name query of that catalog is
\* attempted for a card that has a name, and after the exact-name query of the
\* second catalog fails its composite query is attempted.
C5_NextStillAttempted ==
  \A i \in 1..Len(ilog) :
    ilog[i].kind \in {"non-ok", "rejected"} /\ SecondOf(ilog[i]) # NoQuery
      => AttemptAfter(i) = SecondOf(ilog[i])

\* C6: no exception leaves getImageForCard, and when no query yielded a usable
\* image it returns null.
C6_NeverRaises ==
  /\ ~iraised
  /\ ipc = Returned /\ (\A i \in 1..Len(ilog) : ilog[i].kind # "image") => iret = Null

\* getImageForCard returned null after queries that were rejected, answered
\* with a non-success status, with a malformed body and with an empty result
C6_Witness ==
  /\ ipc = Returned
  /\ iret = Null
  /\ ~iraised
  /\ \A k \in {"rejected", "non-ok", "malformed", "empty"} :
       \E i \in 1..Len(ilog) : ilog[i].kind = k

\* the place of a query in the fixed order: the hinted provider's queries,
\* then the first catalog by set+number and by name, then the second catalog
\* by exact name and by the composite query
Rank(q) ==
  (IF q.stage = "hinted" THEN 0 ELSE 4)
  + (IF q.provider = "pokemon" THEN 0 ELSE 2)
  + (IF q.key \in {"set+number", "exact-name"} THEN 1 ELSE 2)

\* C9: the queries are issued one after another in the fixed order, the hinted
\* provider first, and once a query yields a usable image that URL is returned
\* and no further query is issued.
C9_FixedOrderShortCircuit ==
  /\ \A i \in 1..Len(ilog) : \A j \in 1..Len(ilog) :
       i < j => Rank(ilog[i]) < Rank(ilog[j])
  /\ \A i \in 1..Len(ilog) : AttemptAfter(i) # NoQuery => Rank(ilog[i]) < Rank(AttemptAfter(i))
  /\ \A i \in 1..Len(ilog) :
       ilog[i].kind = "image" =>
         i = Len(ilog) /\ ipc = Returned /\ iret = ilog[i].url /\ Truthy(iret)
  /\ ipc = Returned /\ iret # Null => ilog # <<>> /\ ilog[Len(ilog)].kind = "image"
  /\ ilog # <<>> =>
       QueryOf(ilog[1]).stage =
         (IF PokemonHint(icard) \/ MagicHint(icard) THEN "hinted" ELSE "generic")
  /\ ilog # <<>> /\ PokemonHint(icard) => ilog[1].provider = "pokemon"
  /\ ilog # <<>> /\ MagicHint(icard) /\ ~PokemonHint(icard) => ilog[1].provider = "scryfall"

\* a hinted first catalog had no result by set+number and an image by name,
\* which getImageForCard returned after those two queries
C9_Witness ==
  /\ ipc = Returned
  /\ Len(ilog) = 2
  /\ QueryOf(ilog[1]) = [stage |-> "hinted", provider |-> "pokemon", key |-> "set+number"]
  /\ ilog[1].kind = "empty"
  /\ QueryOf(ilog[2]) = [stage |-> "hinted", provider |-> "pokemon", key |-> "name"]
  /\ ilog[2].kind = "image"
  /\ iret = ilog[2].url

\* ------------------------------------------------- claims C3, C4, C7, C8, C10
\* the variant a card is shaped with: the first element of its variant
\* sequence, or nothing when the sequence is missing or empty
ChosenVariant(card) ==
  LET vs == Get(card, "variants")
  IN  IF vs.t = "arr" /\ Len(vs.f) >= 1 /\ vs.f[1].t = "obj" THEN vs.f[1] ELSE EmptyObj

\* the first of the values xs that is present (neither undefined nor null)
RECURSIVE PickPresent(_)
PickPresent(xs) ==
  IF xs = <<>> THEN Undef
  ELSE IF ~IsNullish(Head(xs)) THEN Head(xs)
  ELSE PickPresent(Tail(xs))

PriceSources(card) ==
  <<Get(ChosenVariant(card), "price"), Get(ChosenVariant(card), "prices"),
    Get(card, "price"), Get(card, "prices")>>

\* x is the only price data of the card
OnlyPriceData(card, x) ==
  \E i \in 1..4 :
    /\ PriceSources(card)[i] = x
    /\ \A j \in (1..4) \ {i} : IsNullish(PriceSources(card)[j])

\* the handler answered 200 with shaped cards: the cards read, and the
\* records sent for them
Shaped == hpc = "done" /\ Len(sent) = 1 /\ sent[1].status = 200 /\ Ok(upStatus)
CardsIn ==
  IF req.route = "price" THEN <<upBody>>
  ELSE IF Get(upBody, "data").t = "arr" THEN Get(upBody, "data").f
  ELSE <<>>
CardsOut ==
  IF req.route = "price" THEN <<sent[1].body>> ELSE Get(sent[1].body, "data").f

\* C3: in the search and the price handler, the outward price and currency are
\* what normalizePrice returns for the first present of the first variant's
\* price, the first variant's prices, the card's price, the card's prices; a
\* card whose only price data is {lowest: 2.99} is reported with price 2.99.
C3_PriceSelection ==
  Shaped /\ req.route \in {"search", "price"} =>
    /\ Len(CardsOut) = Len(CardsIn)
    /\ \A i \in 1..Len(CardsIn) :
         /\ Get(CardsOut[i], "price") = normalizePrice(PickPresent(PriceSources(CardsIn[i]))).amount
         /\ Get(CardsOut[i], "currency") = normalizePrice(PickPresent(PriceSources(CardsIn[i]))).currency
         /\ OnlyPriceData(CardsIn[i], Obj([lowest |-> Num(299)]))
              => Get(CardsOut[i], "price") = Num(299)

\* the search handler shaped a card that has a first variant with a price of
\* null and whose only price data is {lowest: 2.99}
C3_Witness ==
  /\ Shaped
  /\ req.route = "search"
  /\ Len(CardsIn) = 1
  /\ Get(ChosenVariant(CardsIn[1]), "price") = Null
  /\ OnlyPriceData(CardsIn[1], Obj([lowest |-> Num(299)]))
  /\ Get(CardsOut[1], "price") = Num(299)

HasImage(x) == Truthy(Get(x, "image"))

\* C4: only the first variant is consulted (none, and variant_id null, when the
\* sequence is empty or missing); the outward image is the first variant's
\* image if it has one, otherwise the card's own image, otherwise null.
C4_VariantAndImage ==
  Shaped /\ req.route \in {"search", "price"} =>
    /\ Len(CardsOut) = Len(CardsIn)
    /\ \A i \in 1..Len(CardsIn) :
         LET card == CardsIn[i]
             variant == ChosenVariant(card)
         IN  /\ Get(CardsOut[i], "image") =
                  IF HasImage(variant) THEN Get(variant, "image")
                  ELSE IF HasImage(card) THEN Get(card, "image")
                  ELSE Null
             /\ Get(CardsOut[i], "variant_id") =
                  IF IsNullish(Get(variant, "id")) THEN Null ELSE Get(variant, "id")
             /\ Get(card, "variants") \in {Undef, Null, Arr(<<>>)}
                  => Get(CardsOut[i], "variant_id") = Null

\* the price handler shaped a card with two variants, the first without an
\* image, and answered with the card's own image and the first variant's id
C4_Witness ==
  /\ Shaped
  /\ req.route = "price"
  /\ Get(upBody, "variants").t = "arr"
  /\ Len(Get(upBody, "variants").f) = 2
  /\ ~HasImage(ChosenVariant(upBody))
  /\ Get(sent[1].body, "image") = Str(<<"card.png">>)
  /\ Get(sent[1].body, "variant_id") = Str(<<"v1">>)

\* a required query parameter of the request is missing
MissingParam ==
  \/ req.route = "search" /\ (~Truthy(req.game) \/ ~Truthy(req.q))
  \/ req.route = "price" /\ ~Truthy(req.id)

Answered400 ==
  /\ Len(sent) = 1
  /\ sent[1].status = 400
  /\ Truthy(Get(sent[1].body, "error"))
  /\ calls = 0

Answered500Config ==
  /\ Len(sent) = 1
  /\ sent[1].status = 500
  /\ Get(sent[1].body, "error") = Str(<<"JustTCG API key not configured on server (JUSTTCG_API_KEY)">>)
  /\ calls = 0

\* C7 as stated: a request missing a required parameter is answered 400 with an
\* error field, and a request when no credential is configured is answered 500
\* with the configuration message, both without an upstream call.
C7_AsStated ==
  hpc = "done" =>
    /\ MissingParam => Answered400
    /\ ~apiKey => Answered500Config

\* C7 amended: with a credential configured, a request missing a required
\* parameter is answered 400 with an error field; with no credential
\* configured every request, whatever its parameters, is answered 500 with the
\* configuration message; both without an upstream call.
C7_KeyCheckFirst ==
  hpc = "done" =>
    /\ apiKey /\ MissingParam => Answered400
    /\ ~apiKey => Answered500Config

\* the price handler answered a request without id, the credential configured
C7_Witness ==
  /\ hpc = "done"
  /\ apiKey
  /\ req.route = "price"
  /\ req.id = Undef
  /\ Answered400

\* C8: on every route that calls the upstream, an upstream answer with a
\* non-success status is answered with that same status and the upstream's
\* error message or a generic one.
C8_StatusPropagated ==
  hpc = "done" /\ upStatus # 0 /\ ~Ok(upStatus) =>
    /\ Len(sent) = 1
    /\ sent[1].status = upStatus
    /\ Truthy(Get(sent[1].body, "error"))

Pending == hpc \in {"fetch", "errbody", "body"}

\* C10: every request gets exactly one response: never a second one, one by
\* the time the handler is done, and, every upstream call settling, the
\* handler of a request that made an upstream call is eventually done.
C10_ExactlyOneResponse ==
  /\ [](Len(sent) <= 1)
  /\ [](hpc = "done" => Len(sent) = 1)
  /\ [](Pending => Len(sent) = 0)
  /\ (Pending ~> (hpc = "done" /\ Len(sent) = 1))

\* a handler is done after an upstream call whose body it read
C10_Witness ==
  /\ hpc = "done"
  /\ calls = 1
  /\ upStatus # 0
  /\ upBody # Undef
  /\ Len(sent) = 1

====
